---- MODULE Spec2Model ----
(***************************************************************************)
(* Monte Carlo currency simulator (src/monte_carlo.py): the                *)
(* CurrencyMonteCarlo instance, its cached path matrix and terminal        *)
(* column, the queries derived from them, and the arrays a caller holds.   *)
(*                                                                         *)
(* Floating point is modelled as decimal fixed point with round-to-nearest *)
(* (ties to even): the integer v stands for the float v / Scale, and NaN   *)
(* is a value of its own that every operation propagates and every         *)
(* comparison rejects.  exp, log and sqrt are computed and then rounded,   *)
(* so exp(log(x)) is x only when the roundings happen to cancel.           *)
(***************************************************************************)
EXTENDS Integers, Sequences, FiniteSets, TLC

VARIABLES
    sims,       \* instance -> the CurrencyMonteCarlo object's fields
    held,       \* the array the caller got from its last array-returning call
    ret,        \* the last call: operation, arguments, outcome, result
    lastRun,    \* instance -> arguments of its latest successful simulate()
    models,     \* MultiCurrencyMonteCarlo.models: the entries in insertion order
    events,     \* what the simulate_all in progress did, step by step
    kept        \* a query result the caller kept since the latest simulate()

vars == <<sims, held, ret, lastRun, models, events, kept>>

---------------------------------------------------------------------------
(* Bounds of the model *)

MaxDays == 2
MaxPaths == 2

---------------------------------------------------------------------------
(* Floats *)

Scale == 10 * 10
NaN == 0 - 1000000
Prec == 1000 * Scale

F(units, hundredths) == units * Scale + hundredths

IsNaN(a) == a = NaN

RoundDiv(a, b) ==
    LET q == a \div b
        r == a % b
    IN  IF 2 * r < b THEN q
        ELSE IF 2 * r > b THEN q + 1
        ELSE IF q % 2 = 0 THEN q ELSE q + 1

FAdd(a, b) == IF IsNaN(a) \/ IsNaN(b) THEN NaN ELSE a + b

FSub(a, b) == IF IsNaN(a) \/ IsNaN(b) THEN NaN ELSE a - b

FMul(a, b) == IF IsNaN(a) \/ IsNaN(b) THEN NaN ELSE RoundDiv(a * b, Scale)

FDiv(a, b) ==
    IF IsNaN(a) \/ IsNaN(b) \/ b = 0 THEN NaN
    ELSE IF b > 0 THEN RoundDiv(a * Scale, b)
    ELSE RoundDiv((0 - a) * Scale, 0 - b)

FAbs(a) == IF IsNaN(a) THEN NaN ELSE IF a < 0 THEN 0 - a ELSE a

FLe(a, b) == ~IsNaN(a) /\ ~IsNaN(b) /\ a <= b

FLt(a, b) == ~IsNaN(a) /\ ~IsNaN(b) /\ a < b

FGe(a, b) == ~IsNaN(a) /\ ~IsNaN(b) /\ a >= b

FromInt(k) == k * Scale

(* int(x): truncation toward zero *)
IntOf(a) == IF a >= 0 THEN a \div Scale ELSE 0 - ((0 - a) \div Scale)

RECURSIVE ExpTerms(_, _, _, _)
ExpTerms(num, den, term, k) ==
    IF term = 0 THEN 0
    ELSE term + ExpTerms(num, den, RoundDiv(term * num, den * k), k + 1)

ExpRange == 4 * Scale

ExpSeries(q) == ExpTerms(q, Scale, Prec, 1)

ExpHalfSteps(h) == ExpTerms(h, 2 * Scale, Prec, 1)

RECURSIVE Tabulate(_, _, _)
Tabulate(half, lo, hi) ==
    IF lo = hi THEN <<IF half THEN ExpHalfSteps(lo) ELSE ExpSeries(lo)>>
    ELSE LET mid == (lo + hi) \div 2
         IN  Tabulate(half, lo, mid) \o Tabulate(half, mid + 1, hi)

ExpTable == Tabulate(FALSE, 0 - ExpRange, ExpRange)

ExpHalfTable == Tabulate(TRUE, 0 - 2 * ExpRange, 2 * ExpRange + 1)

ExpFx(a) ==
    IF IsNaN(a) THEN NaN
    ELSE RoundDiv(ExpTable[a + ExpRange + 1], Prec \div Scale)

RECURSIVE LogSearch(_, _, _)
LogSearch(v, lo, hi) ==
    IF lo >= hi THEN lo
    ELSE LET mid == (lo + hi) \div 2
         IN  IF v * (Prec \div Scale) <= ExpHalfTable[2 * mid + 1 + 2 * ExpRange + 1]
             THEN LogSearch(v, lo, mid)
             ELSE LogSearch(v, mid + 1, hi)

LogFx(a) == IF IsNaN(a) THEN NaN ELSE LogSearch(a, 0 - ExpRange, ExpRange)

RECURSIVE ISqrt(_, _, _)
ISqrt(x, lo, hi) ==
    IF lo >= hi THEN lo
    ELSE LET mid == (lo + hi + 1) \div 2
         IN  IF mid * mid <= x THEN ISqrt(x, mid, hi) ELSE ISqrt(x, lo, mid - 1)

SqrtCap == 4 * Scale * Scale

SqrtFx(a) ==
    IF IsNaN(a) \/ a < 0 THEN NaN
    ELSE LET x == a * Scale
             r == ISqrt(x, 0, IF x < SqrtCap THEN x ELSE SqrtCap)
         IN  IF x - r * r <= r THEN r ELSE r + 1

---------------------------------------------------------------------------
(* Arrays *)

None == <<>>

Some(v) == <<v>>

RECURSIVE SumSeq(_)
SumSeq(s) == IF s = <<>> THEN 0 ELSE Head(s) + SumSeq(Tail(s))

HasNaN(a) == \E k \in 1..Len(a) : IsNaN(a[k])

Sorted(a) == SortSeq(a, LAMBDA x, y : x < y)

Column(m, c) == [r \in 1..Len(m) |-> m[r][c]]

AsColumnMatrix(a) == [r \in 1..Len(a) |-> <<a[r]>>]

Mean(a) == IF HasNaN(a) THEN NaN ELSE RoundDiv(SumSeq(a), Len(a))

Median(a) ==
    IF HasNaN(a) THEN NaN
    ELSE LET s == Sorted(a)
             n == Len(a)
         IN  IF n % 2 = 1 THEN s[(n + 1) \div 2]
             ELSE RoundDiv(s[n \div 2] + s[n \div 2 + 1], 2)

Min(a) == IF HasNaN(a) THEN NaN ELSE Sorted(a)[1]

Max(a) == IF HasNaN(a) THEN NaN ELSE Sorted(a)[Len(a)]

StdSample(a) ==
    LET m == Mean(a)
        sq == [k \in 1..Len(a) |-> FMul(FSub(a[k], m), FSub(a[k], m))]
    IN  IF HasNaN(sq) THEN NaN
        ELSE SqrtFx(FDiv(SumSeq(sq), FromInt(Len(a) - 1)))

Lerp(a, b, t) ==
    IF 2 * t >= Scale THEN FSub(b, FMul(FSub(b, a), FSub(Scale, t)))
    ELSE FAdd(a, FMul(FSub(b, a), t))

Percentile(a, p) ==
    IF HasNaN(a) \/ IsNaN(p) THEN NaN
    ELSE LET s == Sorted(a)
             n == Len(a)
             q == FDiv(p, FromInt(100))
             virtual == (n - 1) * q
             prev == virtual \div Scale
             gamma == virtual - prev * Scale
             next == IF prev + 1 > n - 1 THEN n - 1 ELSE prev + 1
         IN  Lerp(s[prev + 1], s[next + 1], gamma)

---------------------------------------------------------------------------
(* Random generator: numpy.random.default_rng(seed).standard_normal *)

GeneratorStates == 0..3

SeedState(seed) == (3 * seed + 1) % 4

RngNext(g) == (5 * g + 1) % 4

(* Variant: the seed is ignored and the generator starts anywhere. *)
NewGeneratorsUnseeded(random_seed) == GeneratorStates

(* Variant: one generator shared by all calls: seeding it sets its state, but
   a draw made elsewhere may advance it before the variates are taken. *)
NewGeneratorsShared(random_seed) ==
    IF random_seed = None THEN GeneratorStates
    ELSE {SeedState(random_seed[1]), RngNext(SeedState(random_seed[1]))}

NewGenerators(random_seed) ==
    IF random_seed = None THEN GeneratorStates ELSE {SeedState(random_seed[1])}

RECURSIVE RngAdvance(_, _)
RngAdvance(g, k) == IF k = 0 THEN g ELSE RngAdvance(RngNext(g), k - 1)

VariateTable == <<-150, 50, -50, 150>>

StandardNormal(g, n, steps) ==
    [i \in 1..n |-> [t \in 1..steps |->
        VariateTable[RngAdvance(g, (i - 1) * steps + t) + 1]]]

---------------------------------------------------------------------------
(* CurrencyMonteCarlo *)

Inst == {1, 2}

NoSim ==
    [live |-> FALSE, initial_rate |-> 0, mu |-> 0, sigma |-> 0,
     trading_days_per_year |-> 0, _simulations |-> None, _predicted_rates |-> 0]

InitOutcome(initial_rate, mu, sigma, trading_days_per_year) ==
    IF FLe(initial_rate, 0) THEN [status |-> "ValueError", sim |-> NoSim]
    ELSE IF FLt(sigma, 0) THEN [status |-> "ValueError", sim |-> NoSim]
    ELSE IF FLe(trading_days_per_year, 0) THEN [status |-> "ValueError", sim |-> NoSim]
    ELSE [status |-> "ok",
          sim |-> [live |-> TRUE, initial_rate |-> initial_rate, mu |-> mu,
                   sigma |-> sigma,
                   trading_days_per_year |-> IntOf(trading_days_per_year),
                   _simulations |-> None, _predicted_rates |-> 0]]

RECURSIVE CumSum(_, _)
CumSum(s, acc) ==
    IF s = <<>> THEN <<>>
    ELSE <<FAdd(acc, Head(s))>> \o CumSum(Tail(s), FAdd(acc, Head(s)))

Paths(s, days, n_simulations, g) ==
    LET dt == FDiv(FromInt(1), FromInt(s.trading_days_per_year))
        z == StandardNormal(g, n_simulations, days - 1)
        drift == FMul(FSub(s.mu, FMul(Scale \div 2, FMul(s.sigma, s.sigma))), dt)
        diffusion == FMul(s.sigma, SqrtFx(dt))
        log_returns ==
            [i \in 1..n_simulations |->
                IF days > 1
                THEN CumSum(<<0>> \o [t \in 1..(days - 1) |->
                                FAdd(drift, FMul(diffusion, z[i][t]))], 0)
                ELSE <<0>>]
        log_initial == LogFx(s.initial_rate)
    IN  [i \in 1..n_simulations |-> [t \in 1..days |->
            ExpFx(FAdd(log_initial, log_returns[i][t]))]]

Returned(days, return_paths) ==
    [alias |-> TRUE, col |-> IF return_paths THEN 0 ELSE days, data |-> None]

(* Variant: a rejected call drops the cache before raising. *)
SimulateOutcomeDropsCache(s, days, n_simulations, g, return_paths) ==
    IF days < 1 \/ n_simulations < 1
    THEN [status |-> "ValueError",
          sim |-> [s EXCEPT !._simulations = None, !._predicted_rates = 0],
          value |-> None]
    ELSE IF s.trading_days_per_year = 0
    THEN [status |-> "ZeroDivisionError", sim |-> s, value |-> None]
    ELSE [status |-> "ok",
          sim |-> [s EXCEPT !._simulations = Paths(s, days, n_simulations, g),
                            !._predicted_rates = days],
          value |-> Some(Returned(days, return_paths))]

(* Variant: the terminal column is paths[:, 0] instead of paths[:, -1]. *)
SimulateOutcomeFirstColumn(s, days, n_simulations, g, return_paths) ==
    IF days < 1 THEN [status |-> "ValueError", sim |-> s, value |-> None]
    ELSE IF n_simulations < 1 THEN [status |-> "ValueError", sim |-> s, value |-> None]
    ELSE IF s.trading_days_per_year = 0
    THEN [status |-> "ZeroDivisionError", sim |-> s, value |-> None]
    ELSE [status |-> "ok",
          sim |-> [s EXCEPT !._simulations = Paths(s, days, n_simulations, g),
                            !._predicted_rates = 1],
          value |-> Some(Returned(days, return_paths))]

SimulateOutcome(s, days, n_simulations, g, return_paths) ==
    IF days < 1 THEN [status |-> "ValueError", sim |-> s, value |-> None]
    ELSE IF n_simulations < 1 THEN [status |-> "ValueError", sim |-> s, value |-> None]
    ELSE IF s.trading_days_per_year = 0
    THEN [status |-> "ZeroDivisionError", sim |-> s, value |-> None]
    ELSE [status |-> "ok",
          sim |-> [s EXCEPT !._simulations = Paths(s, days, n_simulations, g),
                            !._predicted_rates = days],
          value |-> Some(Returned(days, return_paths))]

SimulationsCopy(s) ==
    IF s._simulations # None
    THEN Some([alias |-> FALSE, col |-> 0, data |-> s._simulations])
    ELSE None

PredictedRates(s) == Column(s._simulations, s._predicted_rates)

PredictedRatesCopy(s) ==
    IF s._predicted_rates # 0
    THEN Some([alias |-> FALSE, col |-> 1, data |-> AsColumnMatrix(PredictedRates(s))])
    ELSE None

(* Variant: the closed interval [0, 1] is accepted. *)
GetPredictionClosedInterval(s, confidence_level) ==
    IF s._predicted_rates = 0 THEN [status |-> "RuntimeError", value |-> None]
    ELSE IF ~(FLe(0, confidence_level) /\ FLe(confidence_level, FromInt(1)))
    THEN [status |-> "ValueError", value |-> None]
    ELSE LET pred == PredictedRates(s)
         IN  [status |-> "ok",
              value |-> Some(
                [mean |-> Mean(pred), median |-> Median(pred), std |-> StdSample(pred),
                 min_val |-> Min(pred), max_val |-> Max(pred),
                 lower |-> Min(pred), upper |-> Max(pred),
                 confidence_level |-> confidence_level])]

GetPrediction(s, confidence_level) ==
    IF s._predicted_rates = 0 THEN [status |-> "RuntimeError", value |-> None]
    ELSE IF ~(FLt(0, confidence_level) /\ FLt(confidence_level, FromInt(1)))
    THEN [status |-> "ValueError", value |-> None]
    ELSE LET pred == PredictedRates(s)
             alpha == FSub(FromInt(1), confidence_level)
         IN  [status |-> "ok",
              value |-> Some(
                [mean |-> Mean(pred),
                 median |-> Median(pred),
                 std |-> StdSample(pred),
                 min_val |-> Min(pred),
                 max_val |-> Max(pred),
                 lower |-> Percentile(pred, FDiv(FMul(FromInt(100), alpha), FromInt(2))),
                 upper |-> Percentile(pred,
                              FMul(FromInt(100),
                                   FSub(FromInt(1), FDiv(alpha, FromInt(2))))),
                 confidence_level |-> confidence_level])]

Returns(s) ==
    LET pred == PredictedRates(s)
    IN  [k \in 1..Len(pred) |->
            FDiv(FSub(pred[k], s.initial_rate), s.initial_rate)]

VarQuantile(s, confidence_level) ==
    Percentile(Returns(s), FMul(FromInt(100), FSub(FromInt(1), confidence_level)))

(* Variant: the tail is taken above the quantile. *)
TailReturnsUpper(s, confidence_level) ==
    SelectSeq(Returns(s), LAMBDA r : FGe(r, VarQuantile(s, confidence_level)))

TailReturns(s, confidence_level) ==
    SelectSeq(Returns(s), LAMBDA r : FLe(r, VarQuantile(s, confidence_level)))

(* Variant: an empty tail falls back to zero instead of the quantile. *)
CVaRZeroFallback(s, confidence_level) ==
    LET tail_returns == TailReturns(s, confidence_level)
    IN  IF Len(tail_returns) > 0 THEN Mean(tail_returns) ELSE 0

CVaR(s, confidence_level) ==
    LET tail_returns == TailReturns(s, confidence_level)
    IN  IF Len(tail_returns) > 0 THEN Mean(tail_returns)
        ELSE VarQuantile(s, confidence_level)

(* Variant: the arguments are validated before the lifecycle state. *)
CalculateVarArgumentsFirst(s, confidence_level, initial_investment) ==
    IF ~(FLt(0, confidence_level) /\ FLt(confidence_level, FromInt(1)))
    THEN [status |-> "ValueError", value |-> None]
    ELSE IF FLe(initial_investment, 0) THEN [status |-> "ValueError", value |-> None]
    ELSE IF s._predicted_rates = 0 THEN [status |-> "RuntimeError", value |-> None]
    ELSE LET var_quantile == VarQuantile(s, confidence_level)
         IN  [status |-> "ok",
              value |-> Some(
                [var_percent |-> FMul(var_quantile, FromInt(100)),
                 var_amount |-> FMul(initial_investment, FAbs(var_quantile)),
                 cvar_percent |-> FMul(CVaR(s, confidence_level), FromInt(100)),
                 confidence_level |-> confidence_level,
                 initial_investment |-> initial_investment])]

CalculateVar(s, confidence_level, initial_investment) ==
    IF s._predicted_rates = 0 THEN [status |-> "RuntimeError", value |-> None]
    ELSE IF ~(FLt(0, confidence_level) /\ FLt(confidence_level, FromInt(1)))
    THEN [status |-> "ValueError", value |-> None]
    ELSE IF FLe(initial_investment, 0) THEN [status |-> "ValueError", value |-> None]
    ELSE LET var_quantile == VarQuantile(s, confidence_level)
         IN  [status |-> "ok",
              value |-> Some(
                [var_percent |-> FMul(var_quantile, FromInt(100)),
                 var_amount |-> FMul(initial_investment, FAbs(var_quantile)),
                 cvar_percent |-> FMul(CVaR(s, confidence_level), FromInt(100)),
                 confidence_level |-> confidence_level,
                 initial_investment |-> initial_investment])]

(* Variant: the boundary is exclusive. *)
CalculateProbabilityStrict(s, target_rate) ==
    IF s._predicted_rates = 0 THEN [status |-> "RuntimeError", value |-> None]
    ELSE IF FLe(target_rate, 0) THEN [status |-> "ValueError", value |-> None]
    ELSE LET pred == PredictedRates(s)
             hits == Cardinality({k \in 1..Len(pred) : FLt(target_rate, pred[k])})
         IN  [status |-> "ok",
              value |-> Some([probability |-> FDiv(FromInt(hits), FromInt(Len(pred)))])]

CalculateProbability(s, target_rate) ==
    IF s._predicted_rates = 0 THEN [status |-> "RuntimeError", value |-> None]
    ELSE IF FLe(target_rate, 0) THEN [status |-> "ValueError", value |-> None]
    ELSE LET pred == PredictedRates(s)
             hits == Cardinality({k \in 1..Len(pred) : FGe(pred[k], target_rate)})
         IN  [status |-> "ok",
              value |-> Some([probability |-> FDiv(FromInt(hits), FromInt(Len(pred)))])]

---------------------------------------------------------------------------
(* Arguments the callers pass *)

RateArgs == {F(1, 0), F(6, 0), NaN, 0, F(-1, 0)}

MuArgs == {0, F(0, 40)}

SigmaArgs == {0, F(0, 20), F(0, -20)}

YearArgs == {F(4, 0), 0, F(0, 50)}

DaysArgs == 0..MaxDays

PathsArgs == 0..MaxPaths

SeedArgs == {None, Some(0), Some(1)}

ConfidenceArgs == {F(0, 50), F(0, 90), 0, F(1, 0), F(1, 50)}

InvestmentArgs == {F(100, 0), 0}

TargetArgs == {F(1, 0), F(6, 0), 0}

WrittenValues == {0}

---------------------------------------------------------------------------
(* State machine *)

Call(op, i, args, status, value) ==
    [op |-> op, inst |-> i, args |-> args, status |-> status, value |-> value]

Idle == Call("none", 0, [none |-> TRUE], "ok", None)

Init ==
    /\ sims = [i \in Inst |-> NoSim]
    /\ held = None
    /\ ret = Idle
    /\ lastRun = [i \in Inst |-> None]
    /\ models = <<>>
    /\ events = <<>>
    /\ kept = None

Construct(i, initial_rate, mu, sigma, trading_days_per_year) ==
    /\ ret = Idle
    /\ UNCHANGED <<models, events, kept>>
    /\ ~sims[i].live
    /\ LET out == InitOutcome(initial_rate, mu, sigma, trading_days_per_year)
       IN  /\ sims' = [sims EXCEPT ![i] = out.sim]
           /\ ret' = Call("__init__", i,
                          [initial_rate |-> initial_rate, mu |-> mu, sigma |-> sigma,
                           trading_days_per_year |-> trading_days_per_year],
                          out.status, None)
    /\ UNCHANGED <<held, lastRun>>

Simulate(i, days, n_simulations, random_seed, rng, return_paths) ==
    /\ ret = Idle
    /\ UNCHANGED <<models, events>>
    /\ sims[i].live
    /\ LET out == SimulateOutcome(sims[i], days, n_simulations, rng, return_paths)
           args == [days |-> days, n_simulations |-> n_simulations,
                    random_seed |-> random_seed, return_paths |-> return_paths]
       IN  /\ sims' = [sims EXCEPT ![i] = out.sim]
           /\ ret' = Call("simulate", i, args, out.status, None)
           /\ IF out.status = "ok"
              THEN /\ held' = Some([inst |-> i, alias |-> out.value[1].alias,
                                    col |-> out.value[1].col,
                                    data |-> out.value[1].data])
                   /\ lastRun' = [lastRun EXCEPT ![i] =
                                    Some([days |-> days, n_simulations |-> n_simulations,
                                          random_seed |-> random_seed])]
                   /\ kept' = None
              ELSE UNCHANGED <<held, lastRun, kept>>

Hold(i, array) ==
    IF array = None THEN None
    ELSE Some([inst |-> i, alias |-> array[1].alias, col |-> array[1].col,
               data |-> array[1].data])

ReadSimulations(i) ==
    /\ ret = Idle
    /\ UNCHANGED <<models, events, kept>>
    /\ sims[i].live
    /\ held' = Hold(i, SimulationsCopy(sims[i]))
    /\ ret' = Call("simulations", i, [none |-> TRUE], "ok", None)
    /\ UNCHANGED <<sims, lastRun>>

ReadPredictedRates(i) ==
    /\ ret = Idle
    /\ UNCHANGED <<models, events, kept>>
    /\ sims[i].live
    /\ held' = Hold(i, PredictedRatesCopy(sims[i]))
    /\ ret' = Call("predicted_rates", i, [none |-> TRUE], "ok", None)
    /\ UNCHANGED <<sims, lastRun>>

QueryPrediction(i, confidence_level) ==
    /\ ret = Idle
    /\ UNCHANGED <<models, events, kept>>
    /\ sims[i].live
    /\ LET out == GetPrediction(sims[i], confidence_level)
       IN  ret' = Call("get_prediction", i, [confidence_level |-> confidence_level],
                       out.status, out.value)
    /\ UNCHANGED <<sims, held, lastRun>>

QueryVar(i, confidence_level, initial_investment) ==
    /\ ret = Idle
    /\ UNCHANGED <<models, events, kept>>
    /\ sims[i].live
    /\ LET out == CalculateVar(sims[i], confidence_level, initial_investment)
       IN  ret' = Call("calculate_var", i,
                       [confidence_level |-> confidence_level,
                        initial_investment |-> initial_investment],
                       out.status, out.value)
    /\ UNCHANGED <<sims, held, lastRun>>

QueryProbability(i, target_rate) ==
    /\ ret = Idle
    /\ UNCHANGED <<models, events, kept>>
    /\ sims[i].live
    /\ LET out == CalculateProbability(sims[i], target_rate)
       IN  ret' = Call("calculate_probability", i, [target_rate |-> target_rate],
                       out.status, out.value)
    /\ UNCHANGED <<sims, held, lastRun>>

LastRow(m) == Len(m)

LastCol(m) == Len(m[1])

WriteHeld(v) ==
    /\ ret = Idle
    /\ UNCHANGED <<models, events, kept>>
    /\ held # None
    /\ LET h == held[1]
           m == IF h.alias THEN sims[h.inst]._simulations ELSE h.data
           r == LastRow(m)
           c == IF h.col # 0 THEN h.col ELSE LastCol(m)
       IN  /\ IF h.alias
              THEN /\ sims' = [sims EXCEPT ![h.inst]._simulations[r][c] = v]
                   /\ UNCHANGED held
              ELSE /\ held' = Some([h EXCEPT !.data[r][c] = v])
                   /\ UNCHANGED sims
           /\ ret' = Call("write", h.inst, [row |-> r, col |-> c, value |-> v], "ok", None)
    /\ UNCHANGED lastRun

Return ==
    /\ ret # Idle
    /\ ret' = Idle
    /\ events' = <<>>
    /\ UNCHANGED <<sims, held, lastRun, models, kept>>

Next ==
    \/ \E r \in RateArgs, m \in MuArgs, s \in SigmaArgs, y \in YearArgs :
            Construct(1, r, m, s, y)
    \/ \E d \in DaysArgs, n \in PathsArgs, seed \in SeedArgs, rp \in BOOLEAN :
            /\ (d < 1 \/ n < 1) => (seed = None /\ rp)
            /\ \E rng \in NewGenerators(seed) : Simulate(1, d, n, seed, rng, rp)
    \/ ReadSimulations(1)
    \/ ReadPredictedRates(1)
    \/ \E c \in ConfidenceArgs : QueryPrediction(1, c)
    \/ \E c \in ConfidenceArgs, v \in InvestmentArgs : QueryVar(1, c, v)
    \/ \E x \in TargetArgs : QueryProbability(1, x)
    \/ \E v \in WrittenValues : WriteHeld(v)
    \/ Return

Spec == Init /\ [][Next]_vars

---------------------------------------------------------------------------
(* Two identically configured, freshly constructed simulators *)

InitPair ==
    /\ \E r \in RateArgs, m \in MuArgs, s \in SigmaArgs, y \in YearArgs :
          /\ InitOutcome(r, m, s, y).status = "ok"
          /\ sims = [i \in Inst |-> InitOutcome(r, m, s, y).sim]
    /\ held = None
    /\ ret = Idle
    /\ lastRun = [i \in Inst |-> None]
    /\ models = <<>>
    /\ events = <<>>
    /\ kept = None

FirstSimulate(i, days, n_simulations, random_seed, rng, return_paths) ==
    /\ sims[i]._predicted_rates = 0
    /\ Simulate(i, days, n_simulations, random_seed, rng, return_paths)

NextPair ==
    \/ \E i \in Inst, d \in DaysArgs, n \in PathsArgs, seed \in SeedArgs, rp \in BOOLEAN :
            /\ (d < 1 \/ n < 1) => (seed = None /\ rp)
            /\ \E rng \in NewGenerators(seed) : FirstSimulate(i, d, n, seed, rng, rp)
    \/ Return

SpecPair == InitPair /\ [][NextPair]_vars

---------------------------------------------------------------------------
(* One simulator whose caller keeps a query result and asks again *)

Queries == {"get_prediction", "calculate_var", "calculate_probability"}

(* result = sim.get_prediction(...): the caller keeps what the call returned *)
Keep ==
    /\ ret.op \in Queries
    /\ ret.status = "ok"
    /\ kept' = Some([call |-> ret, cache |-> sims[ret.inst]._simulations])
    /\ ret' = Idle
    /\ UNCHANGED <<sims, held, lastRun, models, events>>

RepeatConfidenceArgs == {F(0, 50), F(0, 90)}

NextRepeat ==
    \/ Construct(1, F(6, 0), F(0, 40), F(0, 20), F(4, 0))
    \/ \E d \in {1, MaxDays}, n \in {1, MaxPaths}, seed \in SeedArgs \ {None},
          rp \in BOOLEAN :
            \E rng \in NewGenerators(seed) : Simulate(1, d, n, seed, rng, rp)
    \/ ReadSimulations(1)
    \/ \E c \in RepeatConfidenceArgs : QueryPrediction(1, c)
    \/ \E c \in RepeatConfidenceArgs : QueryVar(1, c, F(100, 0))
    \/ QueryProbability(1, F(6, 0))
    \/ \E v \in WrittenValues : WriteHeld(v)
    \/ Keep
    \/ Return

SpecRepeat == Init /\ [][NextRepeat]_vars

---------------------------------------------------------------------------
(* MultiCurrencyMonteCarlo: a dict of simulators, kept in insertion order *)

Key(text) == [isstr |-> TRUE, text |-> text]

NotAString == [isstr |-> FALSE, text |-> "7"]

Truthy(currency_pair) == currency_pair.text # ""

Position(m, key) ==
    IF \E k \in 1..Len(m) : m[k].key = key
    THEN CHOOSE k \in 1..Len(m) : m[k].key = key
    ELSE 0

(* self.models[key] = sim: a new key goes last, a known key keeps its place *)
(* Variant: a re-added identifier moves to the end of the insertion order. *)
PutMovesToEnd(m, key, sim) ==
    Append(SelectSeq(m, LAMBDA e : e.key # key), [key |-> key, sim |-> sim])

Put(m, key, sim) ==
    IF Position(m, key) = 0 THEN Append(m, [key |-> key, sim |-> sim])
    ELSE [m EXCEPT ![Position(m, key)] = [key |-> key, sim |-> sim]]

Without(m, key) == SelectSeq(m, LAMBDA e : e.key # key)

(* Variant: the known entry is removed before the new simulator is built. *)
AddCurrencyOutcomeDropsFirst(m, currency_pair, initial_rate, mu, sigma, trading_days_per_year) ==
    IF ~Truthy(currency_pair) \/ ~currency_pair.isstr
    THEN [status |-> "ValueError", models |-> m]
    ELSE LET out == InitOutcome(initial_rate, mu, sigma, trading_days_per_year)
         IN  IF out.status # "ok"
             THEN [status |-> out.status, models |-> Without(m, currency_pair.text)]
             ELSE [status |-> "ok", models |-> Put(m, currency_pair.text, out.sim)]

(* Variant: a known entry gets the new parameters but keeps its cache. *)
AddCurrencyOutcomeKeepsCache(m, currency_pair, initial_rate, mu, sigma, trading_days_per_year) ==
    IF ~Truthy(currency_pair) \/ ~currency_pair.isstr
    THEN [status |-> "ValueError", models |-> m]
    ELSE LET out == InitOutcome(initial_rate, mu, sigma, trading_days_per_year)
             k == Position(m, currency_pair.text)
         IN  IF out.status # "ok" THEN [status |-> out.status, models |-> m]
             ELSE IF k = 0
             THEN [status |-> "ok", models |-> Put(m, currency_pair.text, out.sim)]
             ELSE [status |-> "ok",
                   models |-> [m EXCEPT ![k].sim =
                                [out.sim EXCEPT !._simulations = m[k].sim._simulations,
                                     !._predicted_rates = m[k].sim._predicted_rates]]]

AddCurrencyOutcome(m, currency_pair, initial_rate, mu, sigma, trading_days_per_year) ==
    IF ~Truthy(currency_pair) \/ ~currency_pair.isstr
    THEN [status |-> "ValueError", models |-> m]
    ELSE LET out == InitOutcome(initial_rate, mu, sigma, trading_days_per_year)
         IN  IF out.status # "ok" THEN [status |-> out.status, models |-> m]
             ELSE [status |-> "ok", models |-> Put(m, currency_pair.text, out.sim)]

(* int(base_rng.integers(0, 2**32 - 1)): two draws may give the same value *)
IntegerTable == <<3, 1, 1, 2>>

Integers(g) == IntegerTable[g + 1]

SeedEvent(k) == [kind |-> "seed", pos |-> k]

SimulateEvent(k) == [kind |-> "simulate", pos |-> k]

(* Variant: every asset is given the first sub-seed, base_rng is never
   advanced. *)
RECURSIVE SimulateEachOneSeed(_, _, _, _, _, _, _)
SimulateEachOneSeed(m, k, a, base, rngs, ev, results) ==
    IF k > Len(m)
    THEN [status |-> "ok", models |-> m, events |-> ev, value |-> Some(results)]
    ELSE LET seeded == a.random_seed # None
             rng == IF seeded THEN SeedState(Integers(base)) ELSE rngs[k]
             out == SimulateOutcome(m[k].sim, a.days, a.n_simulations, rng,
                                    a.return_paths)
             done == ev \o (IF seeded THEN <<SeedEvent(k)>> ELSE <<>>)
                        \o <<SimulateEvent(k)>>
             after == [m EXCEPT ![k].sim = out.sim]
         IN  IF out.status # "ok"
             THEN [status |-> out.status, models |-> after, events |-> done,
                   value |-> None]
             ELSE SimulateEachOneSeed(after, k + 1, a, base, rngs, done,
                                      Append(results, [key |-> m[k].key,
                                                       array |-> out.value[1]]))

(* The loop of simulate_all from position k on: a is the call's arguments,
   base the state of base_rng, rngs the generators that default_rng(None)
   gives each asset, ev and results what the loop has done so far. *)
RECURSIVE SimulateEach(_, _, _, _, _, _, _)
SimulateEach(m, k, a, base, rngs, ev, results) ==
    IF k > Len(m)
    THEN [status |-> "ok", models |-> m, events |-> ev, value |-> Some(results)]
    ELSE LET seeded == a.random_seed # None
             local_seed == IF seeded THEN Some(Integers(base)) ELSE None
             rng == IF seeded THEN SeedState(local_seed[1]) ELSE rngs[k]
             out == SimulateOutcome(m[k].sim, a.days, a.n_simulations, rng,
                                    a.return_paths)
             done == ev \o (IF seeded THEN <<SeedEvent(k)>> ELSE <<>>)
                        \o <<SimulateEvent(k)>>
             after == [m EXCEPT ![k].sim = out.sim]
         IN  IF out.status # "ok"
             THEN [status |-> out.status, models |-> after, events |-> done,
                   value |-> None]
             ELSE SimulateEach(after, k + 1, a,
                               IF seeded THEN RngNext(base) ELSE base, rngs, done,
                               Append(results, [key |-> m[k].key,
                                                array |-> out.value[1]]))

(* Variant: an empty portfolio is simulated to an empty mapping. *)
SimulateAllOutcomeAllowsEmpty(m, a, base, rngs) ==
    SimulateEach(m, 1, a, base, rngs, <<>>, <<>>)

(* Variant: a failed batch resets every registered simulator. *)
SimulateAllOutcomeResetsOnFailure(m, a, base, rngs) ==
    IF m = <<>>
    THEN [status |-> "ValueError", models |-> m, events |-> <<>>, value |-> None]
    ELSE LET out == SimulateEach(m, 1, a, base, rngs, <<>>, <<>>)
         IN  IF out.status = "ok" THEN out
             ELSE [out EXCEPT !.models =
                    [k \in 1..Len(m) |->
                        [m[k] EXCEPT !.sim._simulations = None,
                                     !.sim._predicted_rates = 0]]]

(* Variant: the mapping lists the assets last to first. *)
SimulateAllOutcomeReversed(m, a, base, rngs) ==
    IF m = <<>>
    THEN [status |-> "ValueError", models |-> m, events |-> <<>>, value |-> None]
    ELSE LET out == SimulateEach(m, 1, a, base, rngs, <<>>, <<>>)
             n == Len(out.value[1])
         IN  IF out.status # "ok" THEN out
             ELSE [out EXCEPT !.value =
                    Some([k \in 1..n |-> out.value[1][n + 1 - k]])]

SimulateAllOutcome(m, a, base, rngs) ==
    IF m = <<>>
    THEN [status |-> "ValueError", models |-> m, events |-> <<>>, value |-> None]
    ELSE SimulateEach(m, 1, a, base, rngs, <<>>, <<>>)

(* DataFrame.round(4): fewer decimals than a float carries *)
RoundStep == Scale \div 10

Round4(v) == IF IsNaN(v) THEN NaN ELSE RoundDiv(v, RoundStep) * RoundStep

DefaultConfidence == F(0, 95)

DefaultInvestment == F(10000, 0)

ComparisonRecord(e) ==
    LET pred == GetPrediction(e.sim, DefaultConfidence).value[1]
        var == CalculateVar(e.sim, DefaultConfidence, DefaultInvestment).value[1]
    IN  [currency_pair |-> e.key,
         initial_rate |-> e.sim.initial_rate,
         mean |-> pred.mean,
         median |-> pred.median,
         std |-> pred.std,
         var_percent |-> var.var_percent,
         min_val |-> pred.min_val,
         max_val |-> pred.max_val,
         lower |-> pred.lower,
         upper |-> pred.upper]

RoundRecord(r) ==
    [currency_pair |-> r.currency_pair,
     initial_rate |-> Round4(r.initial_rate),
     mean |-> Round4(r.mean),
     median |-> Round4(r.median),
     std |-> Round4(r.std),
     var_percent |-> Round4(r.var_percent),
     min_val |-> Round4(r.min_val),
     max_val |-> Round4(r.max_val),
     lower |-> Round4(r.lower),
     upper |-> Round4(r.upper)]

GetComparison(m) ==
    LET simulated == SelectSeq(m, LAMBDA e : e.sim._predicted_rates # 0)
    IN  [k \in 1..Len(simulated) |-> RoundRecord(ComparisonRecord(simulated[k]))]

KeyArgs == {Key("USD/RUB"), Key("EUR/USD"), Key(""), NotAString}

(* <<initial_rate, mu, sigma, trading_days_per_year>> *)
MultiParameters ==
    { <<F(6, 0), F(0, 40), F(0, 20), F(4, 0)>>,
      <<F(1, 23), F(0, 40), F(0, 20), F(4, 0)>>,
      <<F(1, 0), F(0, 40), F(0, 20), F(0, 50)>>,
      <<0, F(0, 40), F(0, 20), F(4, 0)>>,
      <<F(1, 0), F(0, 40), F(0, -20), F(4, 0)>> }

MultiDaysArgs == {0, MaxDays}

MultiPathsArgs == {0, 1, MaxPaths}

(* generator states default_rng(None) gives the assets of one simulate_all *)
MultiGenerators == {0, 3}

AddCurrency(currency_pair, initial_rate, mu, sigma, trading_days_per_year) ==
    /\ ret = Idle
    /\ LET out == AddCurrencyOutcome(models, currency_pair, initial_rate, mu, sigma,
                                     trading_days_per_year)
       IN  /\ models' = out.models
           /\ ret' = Call("add_currency", 0,
                          [currency_pair |-> currency_pair,
                           initial_rate |-> initial_rate, mu |-> mu, sigma |-> sigma,
                           trading_days_per_year |-> trading_days_per_year],
                          out.status, None)
    /\ UNCHANGED <<sims, held, lastRun, events, kept>>

SimulateAll(days, n_simulations, random_seed, base, rngs, return_paths) ==
    /\ ret = Idle
    /\ LET a == [days |-> days, n_simulations |-> n_simulations,
                 random_seed |-> random_seed, return_paths |-> return_paths]
           out == SimulateAllOutcome(models, a, base, rngs)
       IN  /\ models' = out.models
           /\ events' = out.events
           /\ ret' = Call("simulate_all", 0, a, out.status, out.value)
    /\ UNCHANGED <<sims, held, lastRun, kept>>

(* orchestrator.models[key].simulate(...) called directly *)
SimulateModel(k, days, n_simulations, random_seed, rng, return_paths) ==
    /\ ret = Idle
    /\ k \in 1..Len(models)
    /\ LET out == SimulateOutcome(models[k].sim, days, n_simulations, rng, return_paths)
       IN  /\ models' = [models EXCEPT ![k].sim = out.sim]
           /\ ret' = Call("models.simulate", k,
                          [days |-> days, n_simulations |-> n_simulations,
                           random_seed |-> random_seed, return_paths |-> return_paths],
                          out.status, None)
    /\ UNCHANGED <<sims, held, lastRun, events, kept>>

CompareAll ==
    /\ ret = Idle
    /\ ret' = Call("get_comparison", 0, [none |-> TRUE], "ok", Some(GetComparison(models)))
    /\ UNCHANGED <<sims, held, lastRun, models, events, kept>>

Slots == 1..Cardinality({k \in KeyArgs : k.isstr /\ Truthy(k)})

NextMulti ==
    \/ \E k \in KeyArgs, p \in MultiParameters :
            /\ (~k.isstr \/ ~Truthy(k)) => p[1] = F(6, 0)
            /\ AddCurrency(k, p[1], p[2], p[3], p[4])
    \/ \E d \in MultiDaysArgs, n \in MultiPathsArgs, seed \in SeedArgs, rp \in BOOLEAN :
            /\ (d < 1 \/ n < 1) => (seed # Some(1) /\ rp)
            /\ ~rp => seed = Some(1)
            /\ \E base \in NewGenerators(seed), rngs \in [Slots -> MultiGenerators] :
                /\ seed = None => base = 0
                /\ seed # None => \A k \in Slots : rngs[k] = 0
                /\ \A k \in Slots : k > Len(models) => rngs[k] = 0
                /\ SimulateAll(d, n, seed, base, rngs, rp)
    \/ \E k \in Slots, d \in MultiDaysArgs, n \in MultiPathsArgs, seed \in SeedArgs :
            /\ (d < 1 \/ n < 1) => seed = None
            /\ \E rng \in NewGenerators(seed) :
                /\ seed = None => rng \in MultiGenerators
                /\ SimulateModel(k, d, n, seed, rng, TRUE)
    \/ CompareAll
    \/ Return

SpecMulti == Init /\ [][NextMulti]_vars

---------------------------------------------------------------------------
(* Claims *)

InUnitInterval(c) == ~IsNaN(c) /\ 0 < c /\ c < Scale

Cached(i) == sims[i]._simulations

Terminal(i) == [r \in 1..Len(Cached(i)) |-> Cached(i)[r][sims[i]._predicted_rates]]

(* C1: a prediction, VaR or probability query on an instance that has no
   successful simulate() behind it raises RuntimeError and returns nothing,
   whatever its arguments are. *)
C1_QueryBeforeSimulate ==
    [][(ret'.op \in Queries /\ sims[ret'.inst]._predicted_rates = 0)
        => (ret'.status = "RuntimeError" /\ ret'.value = None)]_vars

C1_Witness ==
    /\ ret.op = "calculate_var"
    /\ ret.status = "RuntimeError"
    /\ ~InUnitInterval(ret.args.confidence_level)
    /\ ret.args.initial_investment <= 0

(* C2: simulate() with days < 1 or n_simulations < 1 raises ValueError and
   leaves the instance (cached matrix, terminal column, lifecycle state)
   exactly as it was. *)
C2_FailedSimulateChangesNothing ==
    [][(ret'.op = "simulate" /\ (ret'.args.days < 1 \/ ret'.args.n_simulations < 1))
        => (ret'.status = "ValueError" /\ sims' = sims /\ lastRun' = lastRun)]_vars

C2_Witness ==
    /\ ret.op = "simulate"
    /\ ret.status = "ValueError"
    /\ ret.args.days >= 1
    /\ ret.args.n_simulations < 1
    /\ sims[ret.inst]._predicted_rates # 0

(* C3: writing into an array the caller obtained from the simulator never
   changes the simulator's cached matrix or terminal column. *)
C3_CallerWritesNeverReachCache ==
    [][ret'.op = "write" => sims' = sims]_vars

(* C4: right after a successful simulate() on valid parameters, column 0 of
   the cached matrix equals initial_rate in every row. *)
C4_ColumnZeroIsInitialRate ==
    (ret.op = "simulate" /\ ret.status = "ok" /\ ~IsNaN(sims[ret.inst].initial_rate))
        => \A r \in 1..Len(Cached(ret.inst)) :
                Cached(ret.inst)[r][1] = sims[ret.inst].initial_rate

(* C5: the cache is that of the latest successful simulate(): matrix and
   terminal column are both absent or both present, the matrix has
   n_simulations rows of days entries of that call, and the terminal column is
   the last column of the matrix. *)
C5_CacheIsLatestRun ==
    \A i \in Inst :
        /\ (Cached(i) = None) <=> (sims[i]._predicted_rates = 0)
        /\ (Cached(i) = None) <=> (lastRun[i] = None)
        /\ Cached(i) # None =>
            /\ Len(Cached(i)) = lastRun[i][1].n_simulations
            /\ \A r \in 1..Len(Cached(i)) : Len(Cached(i)[r]) = lastRun[i][1].days
            /\ Len(Terminal(i)) = lastRun[i][1].n_simulations
            /\ \A r \in 1..Len(Cached(i)) :
                    Terminal(i)[r] = Cached(i)[r][Len(Cached(i)[r])]

C5_Witness ==
    /\ ret.op = "simulate"
    /\ ret.status = "ValueError"
    /\ lastRun[1] # None
    /\ lastRun[1][1].days = 2
    /\ lastRun[1][1].n_simulations = 2
    /\ Cached(1)[1][1] # Cached(1)[1][2]

(* C6: two freshly constructed simulators with the same parameters, run with
   the same days, n_simulations and non-null seed, hold identical matrices. *)
C6_SameSeedSameMatrix ==
    \A i \in Inst, j \in Inst :
        ( /\ lastRun[i] # None
          /\ lastRun[j] = lastRun[i]
          /\ lastRun[i][1].random_seed # None
          /\ sims[i].initial_rate = sims[j].initial_rate
          /\ sims[i].mu = sims[j].mu
          /\ sims[i].sigma = sims[j].sigma
          /\ sims[i].trading_days_per_year = sims[j].trading_days_per_year )
        => Cached(i) = Cached(j)

C6_Witness ==
    /\ lastRun[1] # None
    /\ lastRun[2] = lastRun[1]
    /\ lastRun[1][1].random_seed = Some(1)
    /\ lastRun[1][1].days = 2
    /\ lastRun[1][1].n_simulations = 2
    /\ sims[1].sigma > 0
    /\ Cached(1)[1][2] # Cached(1)[2][2]

VarCall == ret.op = "calculate_var" /\ ret.status = "ok"

VarResult == ret.value[1]

ReturnsOf(i) ==
    [r \in 1..Len(Terminal(i)) |->
        FDiv(FSub(Terminal(i)[r], sims[i].initial_rate), sims[i].initial_rate)]

FiniteReturns(i) == \A r \in 1..Len(ReturnsOf(i)) : ~IsNaN(ReturnsOf(i)[r])

(* C7 as stated: for every cached output and confidence level in (0,1),
   calculate_var returns |cvar_percent| >= |var_percent|, also when every
   terminal return is positive. *)
C7_TailSeverityAlways ==
    (VarCall /\ FiniteReturns(ret.inst))
        => FAbs(VarResult.cvar_percent) >= FAbs(VarResult.var_percent)

(* C7 as amended: for finite returns cvar_percent <= var_percent (the tail
   mean is never above its cutoff), so |cvar_percent| >= |var_percent|
   whenever var_percent <= 0. *)
C7_TailMeanBelowCutoff ==
    (VarCall /\ FiniteReturns(ret.inst))
        => /\ VarResult.cvar_percent <= VarResult.var_percent
           /\ VarResult.var_percent <= 0
                => FAbs(VarResult.cvar_percent) >= FAbs(VarResult.var_percent)

C7_Witness ==
    /\ VarCall
    /\ FiniteReturns(ret.inst)
    /\ VarResult.var_percent < 0
    /\ VarResult.cvar_percent < VarResult.var_percent
    /\ \E r \in 1..Len(ReturnsOf(ret.inst)) : ReturnsOf(ret.inst)[r] > 0

TailIndexes(i, cutoff) ==
    {r \in 1..Len(ReturnsOf(i)) : FLe(ReturnsOf(i)[r], cutoff)}

RECURSIVE SumOver(_, _)
SumOver(a, idx) ==
    IF idx = {} THEN 0
    ELSE LET k == CHOOSE k \in idx : TRUE
         IN  a[k] + SumOver(a, idx \ {k})

(* C8: the tail set {r : r <= var_quantile} can be empty, and then cvar is
   var_quantile; otherwise cvar is the mean of the tail set. *)
C8_TailFallback ==
    VarCall =>
        LET i == ret.inst
            cutoff == Percentile(ReturnsOf(i),
                          FMul(FromInt(100), FSub(FromInt(1), ret.args.confidence_level)))
            tail == TailIndexes(i, cutoff)
        IN  /\ VarResult.var_percent = FMul(cutoff, FromInt(100))
            /\ tail = {} => VarResult.cvar_percent = VarResult.var_percent
            /\ tail # {} =>
                VarResult.cvar_percent =
                    FMul(RoundDiv(SumOver(ReturnsOf(i), tail), Cardinality(tail)),
                         FromInt(100))

C8_Witness ==
    /\ VarCall
    /\ ret.args.confidence_level = F(0, 90)
    /\ Len(Terminal(ret.inst)) = 1
    /\ TailIndexes(ret.inst, VarQuantile(sims[ret.inst], ret.args.confidence_level)) = {}

(* Supporting fact for C8: the tail set is empty exactly when the quantile is
   NaN; for finite returns the smallest return is always in the tail. *)
C8_EmptyTailOnlyForNaN ==
    VarCall =>
        ( TailIndexes(ret.inst, VarQuantile(sims[ret.inst], ret.args.confidence_level)) = {}
            <=> IsNaN(VarResult.var_percent) )

(* C9: with a single path get_prediction returns std = 0 and
   mean = median = min = max = the one terminal value. *)
C9_SinglePathStdIsZero ==
    ( /\ ret.op = "get_prediction"
      /\ ret.status = "ok"
      /\ Len(Terminal(ret.inst)) = 1
      /\ ~IsNaN(Terminal(ret.inst)[1]) )
    => /\ ret.value[1].std = 0
       /\ ret.value[1].mean = Terminal(ret.inst)[1]
       /\ ret.value[1].median = Terminal(ret.inst)[1]
       /\ ret.value[1].min_val = Terminal(ret.inst)[1]
       /\ ret.value[1].max_val = Terminal(ret.inst)[1]

InvalidQuery(call) ==
    \/ call.op = "get_prediction" /\ ~InUnitInterval(call.args.confidence_level)
    \/ /\ call.op = "calculate_var"
       /\ \/ ~InUnitInterval(call.args.confidence_level)
          \/ call.args.initial_investment <= 0
    \/ call.op = "calculate_probability" /\ call.args.target_rate <= 0

(* C10: on a simulated instance a query with confidence_level outside (0,1),
   initial_investment <= 0 or target_rate <= 0 raises ValueError, returns
   nothing and leaves the cache unchanged. *)
C10_InvalidQueryArguments ==
    [][(ret'.op \in Queries /\ sims[ret'.inst]._predicted_rates # 0 /\ InvalidQuery(ret'))
        => (ret'.status = "ValueError" /\ ret'.value = None /\ sims' = sims)]_vars

C10_Witness ==
    /\ ret.op = "get_prediction"
    /\ ret.status = "ValueError"
    /\ ret.args.confidence_level = FromInt(1)
    /\ sims[ret.inst]._predicted_rates # 0

ProbabilityCall == ret.op = "calculate_probability" /\ ret.status = "ok"

FiniteTerminal(i) == \A r \in 1..Len(Terminal(i)) : ~IsNaN(Terminal(i)[r])

(* C11: on a simulated instance and for target_rate > 0,
   calculate_probability is the number of cached terminal values >= target_rate
   (boundary included) divided by n_simulations; it lies in [0, 1], is 1 when
   target_rate <= the smallest terminal value and 0 when target_rate is above
   the largest. *)
C11_ProbabilityIsSurvivalFraction ==
    ProbabilityCall =>
        LET i == ret.inst
            pred == Terminal(i)
            n == Len(pred)
            target == ret.args.target_rate
            hits == Cardinality({r \in 1..n : ~IsNaN(pred[r]) /\ pred[r] >= target})
            p == ret.value[1].probability
        IN  /\ target > 0
            /\ p = RoundDiv(hits * Scale, n)
            /\ 0 <= p /\ p <= Scale
            /\ (FiniteTerminal(i) /\ \A r \in 1..n : target <= pred[r]) => p = Scale
            /\ (FiniteTerminal(i) /\ \A r \in 1..n : target > pred[r]) => p = 0

C11_Witness ==
    /\ ProbabilityCall
    /\ Len(Terminal(ret.inst)) = 2
    /\ Terminal(ret.inst)[1] = ret.args.target_rate
    /\ Terminal(ret.inst)[2] = ret.args.target_rate
    /\ ret.value[1].probability = Scale

SimulateCall == ret.op = "simulate" /\ ret.status = "ok"

Degenerate(i) ==
    sims[i].live /\ sims[i].mu = 0 /\ sims[i].sigma = 0 /\ ~IsNaN(sims[i].initial_rate)

AllEntriesAre(m, v) == \A r \in 1..Len(m) : \A c \in 1..Len(m[r]) : m[r][c] = v

(* The cache of instance i is what its latest simulate() produced from
   generator state g. *)
Untouched(i, g) ==
    /\ lastRun[i] # None
    /\ Cached(i) = Paths(sims[i], lastRun[i][1].days, lastRun[i][1].n_simulations, g)

(* C12: with mu = 0 and sigma = 0, for every days, n_simulations and seed,
   every entry of the matrix equals initial_rate,
   calculate_probability(initial_rate) is 1 and calculate_var returns
   var_percent = cvar_percent = var_amount = 0. *)
C12_DegenerateIsConstant ==
    /\ (SimulateCall /\ Degenerate(ret.inst))
            => AllEntriesAre(Cached(ret.inst), sims[ret.inst].initial_rate)
    /\ (ProbabilityCall /\ Degenerate(ret.inst) /\ Untouched(ret.inst, 0)
            /\ ret.args.target_rate = sims[ret.inst].initial_rate)
            => ret.value[1].probability = Scale
    /\ (VarCall /\ Degenerate(ret.inst) /\ Untouched(ret.inst, 0))
            => /\ VarResult.var_percent = 0
               /\ VarResult.cvar_percent = 0
               /\ VarResult.var_amount = 0

(* Supporting fact for C12: with mu = 0 and sigma = 0 every entry is the same
   value exp(log(initial_rate)), whatever the generator state. *)
C12_DegenerateIsUniform ==
    (SimulateCall /\ Degenerate(ret.inst))
        => /\ AllEntriesAre(Cached(ret.inst), ExpFx(LogFx(sims[ret.inst].initial_rate)))
           /\ \A g \in GeneratorStates : Untouched(ret.inst, g)

(* C13: simulate with days = 1 gives a matrix of n_simulations rows of one
   entry, every entry equal to initial_rate, for any mu, sigma and seed; the
   terminal column is column 0 and the result does not depend on the seed. *)
C13_SingleDayIsInitialRate ==
    (SimulateCall /\ ret.args.days = 1 /\ ~IsNaN(sims[ret.inst].initial_rate))
        => /\ Len(Cached(ret.inst)) = ret.args.n_simulations
           /\ \A r \in 1..Len(Cached(ret.inst)) : Len(Cached(ret.inst)[r]) = 1
           /\ AllEntriesAre(Cached(ret.inst), sims[ret.inst].initial_rate)
           /\ sims[ret.inst]._predicted_rates = 1
           /\ \A g \in GeneratorStates : Untouched(ret.inst, g)

(* Supporting fact for C13: with days = 1 the shape, the terminal column and
   the independence from the seed hold; every entry is exp(log(initial_rate)). *)
C13_SingleDayIsSeedIndependent ==
    (SimulateCall /\ ret.args.days = 1)
        => /\ Len(Cached(ret.inst)) = ret.args.n_simulations
           /\ \A r \in 1..Len(Cached(ret.inst)) : Len(Cached(ret.inst)[r]) = 1
           /\ AllEntriesAre(Cached(ret.inst), ExpFx(LogFx(sims[ret.inst].initial_rate)))
           /\ sims[ret.inst]._predicted_rates = 1
           /\ \A g \in GeneratorStates : Untouched(ret.inst, g)

InvalidParameters(a) ==
    \/ FLe(a.initial_rate, 0)
    \/ FLt(a.sigma, 0)
    \/ FLe(a.trading_days_per_year, 0)

(* Supporting fact for C14: a construction with initial_rate <= 0, sigma < 0
   or trading_days_per_year <= 0 raises ValueError and yields no simulator;
   any other construction stores int(trading_days_per_year). *)
C14_InvalidConstructionRejected ==
    ret.op = "__init__" =>
        IF InvalidParameters(ret.args)
        THEN ret.status = "ValueError" /\ ~sims[ret.inst].live
        ELSE /\ ret.status = "ok"
             /\ sims[ret.inst].live
             /\ sims[ret.inst].trading_days_per_year = IntOf(ret.args.trading_days_per_year)

(* C14: parameters are validated at construction and not later: an invalid
   construction raises ValueError and yields no simulator, so every simulator
   that exists stores initial_rate > 0, sigma >= 0 and
   trading_days_per_year > 0, and simulate() with valid days and
   n_simulations never fails because of a stored parameter. *)
C14_StoredParametersAreValid ==
    /\ C14_InvalidConstructionRejected
    /\ \A i \in Inst : sims[i].live =>
            /\ ~IsNaN(sims[i].initial_rate) /\ sims[i].initial_rate > 0
            /\ ~IsNaN(sims[i].sigma) /\ sims[i].sigma >= 0
            /\ sims[i].trading_days_per_year > 0
    /\ (ret.op = "simulate" /\ ret.args.days >= 1 /\ ret.args.n_simulations >= 1)
            => ret.status = "ok"

(* C14, the part about simulate() alone: on a simulator with a finite
   initial_rate, simulate() with valid days and n_simulations succeeds. *)
C14_SimulateNeverFailsOnStoredParameter ==
    (ret.op = "simulate" /\ ret.args.days >= 1 /\ ret.args.n_simulations >= 1
        /\ ~IsNaN(sims[ret.inst].initial_rate))
        => ret.status = "ok"

Simulated(s) == s._predicted_rates # 0

(* Supporting fact for C15: a simulator is Configured after construction,
   becomes Simulated only by a successful simulate() on it, and once
   Simulated stays Simulated. *)
C15_SimulatedIsAbsorbing ==
    [][\A i \in Inst :
        /\ (ret'.op = "__init__" /\ ret'.inst = i /\ sims'[i].live)
                => ~Simulated(sims'[i])
        /\ (~Simulated(sims[i]) /\ Simulated(sims'[i]))
                => (ret'.op = "simulate" /\ ret'.inst = i /\ ret'.status = "ok")
        /\ Simulated(sims[i]) => Simulated(sims'[i])]_vars

(* Supporting fact for C15, inside an orchestrator: simulate_all, direct
   simulate() and get_comparison never take a registered simulator out of
   Simulated; only add_currency puts a new Configured simulator in its place. *)
C15_OrchestratedStaysSimulated ==
    [][ret'.op # "add_currency" =>
        /\ Len(models') = Len(models)
        /\ \A k \in 1..Len(models) :
                Simulated(models[k].sim) => Simulated(models'[k].sim)]_vars

(* C15: a simulator is Configured after construction, becomes Simulated only
   through a successful simulate(), stays Simulated under every later
   operation, and is in no state from which simulate() (with valid days and
   n_simulations) is refused. *)
C15_Lifecycle ==
    [][\A i \in Inst :
        /\ (ret'.op = "__init__" /\ ret'.inst = i /\ sims'[i].live)
                => ~Simulated(sims'[i])
        /\ (~Simulated(sims[i]) /\ Simulated(sims'[i]))
                => (ret'.op = "simulate" /\ ret'.inst = i /\ ret'.status = "ok")
        /\ Simulated(sims[i]) => Simulated(sims'[i])
        /\ (ret'.op = "simulate" /\ ret'.inst = i /\ ret'.args.days >= 1
                /\ ret'.args.n_simulations >= 1)
                => (ret'.status = "ok" /\ Simulated(sims'[i]))]_vars

(* Supporting fact for C16: get_prediction, calculate_var and
   calculate_probability assign nothing: parameters, cached matrix, terminal
   column and the caller's arrays are as before the call. *)
C16_QueriesAssignNothing ==
    [][ret'.op \in Queries => (sims' = sims /\ held' = held /\ lastRun' = lastRun)]_vars

(* Supporting fact for C16: get_comparison changes no registered simulator. *)
C16_ComparisonAssignsNothing ==
    [][ret'.op = "get_comparison" => models' = models]_vars

SameQuery(a, b) == a.op = b.op /\ a.inst = b.inst /\ a.args = b.args

(* Supporting fact for C16: a repeated query returns the kept result as long
   as the cached matrix holds the values it held then. *)
C16_SameCacheSameAnswer ==
    [][(ret'.op \in Queries /\ kept # None /\ SameQuery(kept[1].call, ret')
            /\ sims[ret'.inst]._simulations = kept[1].cache)
        => (ret'.status = kept[1].call.status /\ ret'.value = kept[1].call.value)]_vars

(* C16: queries are read-only and never cached: they leave parameters, cached
   matrix and terminal column unchanged, and the same query called twice with
   no simulate() in between returns equal results. *)
C16_QueriesReadOnlyRepeatable ==
    [][ret'.op \in Queries =>
        /\ sims' = sims
        /\ (kept # None /\ SameQuery(kept[1].call, ret'))
            => (ret'.status = kept[1].call.status /\ ret'.value = kept[1].call.value)]_vars

AddCall == ret.op = "add_currency"

BadKey(currency_pair) == ~currency_pair.isstr \/ currency_pair.text = ""

(* C17: add_currency with an empty or non-string identifier, or with
   initial_rate <= 0, sigma < 0 or trading_days_per_year <= 0, raises
   ValueError and leaves the orchestrator as it was: same identifiers, same
   order, and a registered identifier keeps its simulator and its cache. *)
C17_FailedAddChangesNothing ==
    [][(ret'.op = "add_currency"
            /\ (BadKey(ret'.args.currency_pair) \/ InvalidParameters(ret'.args)))
        => (ret'.status = "ValueError" /\ models' = models)]_vars

C17_Witness ==
    /\ AddCall
    /\ ret.status = "ValueError"
    /\ ~BadKey(ret.args.currency_pair)
    /\ Position(models, ret.args.currency_pair.text) # 0
    /\ Simulated(models[Position(models, ret.args.currency_pair.text)].sim)

ComparedKeys(m) == {GetComparison(m)[k].currency_pair : k \in 1..Len(GetComparison(m))}

(* C18: add_currency on a registered identifier replaces the entry: the
   number of assets is unchanged, the entry is a fresh Configured simulator
   with the new parameters (so it is not in get_comparison), the other entries
   are untouched, and the same call issued again changes nothing more. *)
C18_ReAddReplaces ==
    [][(ret'.op = "add_currency" /\ ret'.status = "ok"
            /\ Position(models, ret'.args.currency_pair.text) # 0)
        => LET a == ret'.args
               key == a.currency_pair.text
               k == Position(models, key)
           IN  /\ Len(models') = Len(models)
               /\ \A j \in 1..Len(models) : j # k => models'[j] = models[j]
               /\ models'[k].key = key
               /\ models'[k].sim =
                    [live |-> TRUE, initial_rate |-> a.initial_rate, mu |-> a.mu,
                     sigma |-> a.sigma,
                     trading_days_per_year |-> IntOf(a.trading_days_per_year),
                     _simulations |-> None, _predicted_rates |-> 0]
               /\ key \notin ComparedKeys(models')
               /\ AddCurrencyOutcome(models', a.currency_pair, a.initial_rate, a.mu,
                                     a.sigma, a.trading_days_per_year).models
                    = models']_vars

C18_Witness ==
    /\ AddCall
    /\ ret.status = "ok"
    /\ Len(models) = 2
    /\ Position(models, ret.args.currency_pair.text) = 1
    /\ ~Simulated(models[1].sim)
    /\ Simulated(models[2].sim)

(* C19: simulate_all on an orchestrator without assets raises ValueError for
   every days, n_simulations and seed, valid or not, and returns no mapping;
   get_comparison on it succeeds with an empty table. *)
C19_EmptyPortfolio ==
    [][/\ (ret'.op = "simulate_all" /\ models = <<>>)
            => (ret'.status = "ValueError" /\ ret'.value = None /\ models' = <<>>)
       /\ (ret'.op = "get_comparison" /\ models = <<>>)
            => (ret'.status = "ok" /\ ret'.value = Some(<<>>) /\ models' = <<>>)]_vars

C19_Witness ==
    /\ ret.op = "simulate_all"
    /\ ret.status = "ValueError"
    /\ models = <<>>
    /\ ret.args.days < 1

(* C20: in a simulate_all with a non-null seed the sub-seed of the last
   registered asset is derived before the first asset's simulate() starts. *)
C20_SeedsBeforeSimulations ==
    (ret.op = "simulate_all" /\ ret.status = "ok" /\ ret.args.random_seed # None)
        => \E a \in 1..Len(events) :
                /\ events[a] = SeedEvent(Len(models))
                /\ \A b \in 1..Len(events) : events[b].kind = "simulate" => a < b

(* Supporting fact for C20: each asset's sub-seed is derived right before
   that asset's own simulate(), one asset after the other. *)
C20_SeedThenSimulatePerAsset ==
    (ret.op = "simulate_all" /\ ret.status = "ok" /\ ret.args.random_seed # None)
        => /\ Len(events) = 2 * Len(models)
           /\ \A k \in 1..Len(models) :
                /\ events[2 * k - 1] = SeedEvent(k)
                /\ events[2 * k] = SimulateEvent(k)

AllCall == ret.op = "simulate_all"

(* The sub-seed that position i receives under base seed seed: the i-th
   integer drawn from a generator seeded with the base seed. *)
SubSeedAt(seed, i) == IntegerTable[RngAdvance(SeedState(seed), i - 1) + 1]

(* Positions whose simulate() succeeded in the simulate_all just returned. *)
SimulatedByCall ==
    {k \in 1..Len(models) :
        /\ \E e \in 1..Len(events) : events[e] = SimulateEvent(k)
        /\ ret.status = "ok" \/ events[Len(events)] # SimulateEvent(k)}

(* C21: in a simulate_all with a non-null base seed (0 included) the matrix
   of the asset at insertion position k is the one that asset's own
   simulate() produces from the sub-seed determined by the base seed and k
   alone: it does not depend on the identifier, on the assets after it or on
   how the other assets' simulations ended, so two orchestrators that hold
   the same assets in the same order get the same matrix for each asset. *)
C21_SubSeedByPosition ==
    (AllCall /\ ret.args.random_seed # None)
        => \A k \in SimulatedByCall :
                models[k].sim._simulations =
                    Paths(models[k].sim, ret.args.days, ret.args.n_simulations,
                          SeedState(SubSeedAt(ret.args.random_seed[1], k)))

C21_Witness ==
    /\ AllCall
    /\ ret.status = "ok"
    /\ ret.args.random_seed = Some(0)
    /\ ret.args.days = MaxDays
    /\ Len(models) = 2
    /\ models[1].sim.initial_rate # models[2].sim.initial_rate

(* Supporting fact for C21: a later asset whose simulate() fails does not
   change what the assets before it received. *)
C21_WitnessLaterFailure ==
    /\ AllCall
    /\ ret.status = "ZeroDivisionError"
    /\ ret.args.random_seed = Some(1)
    /\ Len(models) = 2
    /\ SimulatedByCall = {1}

CompareCall == ret.op = "get_comparison"

SimulatedEntries(m) == SelectSeq(m, LAMBDA e : Simulated(e.sim))

(* C22: get_comparison never fails and returns one row per asset that is
   Simulated, in insertion order, each row carrying that asset's identifier
   and its initial_rate; assets that are not Simulated have no row and the
   table is empty when no asset is Simulated. *)
C22_RowPerSimulatedAsset ==
    CompareCall
        => /\ ret.status = "ok"
           /\ Len(ret.value[1]) = Len(SimulatedEntries(models))
           /\ \A k \in 1..Len(ret.value[1]) :
                /\ ret.value[1][k].currency_pair = SimulatedEntries(models)[k].key
                /\ ret.value[1][k].initial_rate
                     = SimulatedEntries(models)[k].sim.initial_rate

(* Supporting fact for C22: the rows are the Simulated assets in insertion
   order, identified by their identifiers, and the initial rate of a row is
   the asset's initial_rate rounded as the table rounds. *)
C22_RowsInInsertionOrder ==
    CompareCall
        => /\ ret.status = "ok"
           /\ Len(ret.value[1]) = Len(SimulatedEntries(models))
           /\ \A k \in 1..Len(ret.value[1]) :
                /\ ret.value[1][k].currency_pair = SimulatedEntries(models)[k].key
                /\ ret.value[1][k].initial_rate
                     = Round4(SimulatedEntries(models)[k].sim.initial_rate)

(* Supporting fact for C22: a table of two rows beside a table that leaves
   out an asset added after the last simulation. *)
C22_WitnessTwoRows ==
    /\ CompareCall
    /\ Len(models) = 2
    /\ Len(ret.value[1]) = 2
    /\ ret.value[1][1].currency_pair = "USD/RUB"
    /\ ret.value[1][2].currency_pair = "EUR/USD"

C22_WitnessOmitted ==
    /\ CompareCall
    /\ Len(models) = 2
    /\ Len(ret.value[1]) = 1
    /\ ret.value[1][1].currency_pair = models[2].key

(* C23: the numbers of a get_comparison row are not rounded: each is the
   asset's initial_rate, or the field of its get_prediction(0.95) or
   calculate_var(0.95) result, as that call returns it. *)
C23_RowsAreUnrounded ==
    CompareCall
        => \A k \in 1..Len(ret.value[1]) :
                ret.value[1][k] = ComparisonRecord(SimulatedEntries(models)[k])

(* Supporting fact for C23: each number of a row is the unrounded value
   rounded by the table, so it differs from it by at most half a rounding
   step. *)
C23_RowsAreRounded ==
    CompareCall
        => \A k \in 1..Len(ret.value[1]) :
                LET row == ret.value[1][k]
                    raw == ComparisonRecord(SimulatedEntries(models)[k])
                IN  /\ row = RoundRecord(raw)
                    /\ ~IsNaN(raw.mean) => 2 * FAbs(row.mean - raw.mean) <= RoundStep
                    /\ ~IsNaN(raw.var_percent)
                        => 2 * FAbs(row.var_percent - raw.var_percent) <= RoundStep

C23_WitnessRoundedMean ==
    /\ CompareCall
    /\ Len(ret.value[1]) = 1
    /\ ret.value[1][1].initial_rate = models[1].sim.initial_rate
    /\ ret.value[1][1].mean
         # GetPrediction(models[1].sim, DefaultConfidence).value[1].mean

(* == on floats: a NaN equals nothing, itself included *)
FEq(a, b) == ~IsNaN(a) /\ ~IsNaN(b) /\ a = b

QuantileOf(i, confidence_level) ==
    Percentile(ReturnsOf(i), FMul(FromInt(100), FSub(FromInt(1), confidence_level)))

VarIdentities(i) ==
    LET var_quantile == QuantileOf(i, VarResult.confidence_level)
    IN  /\ FGe(VarResult.var_amount, 0)
        /\ FEq(VarResult.var_amount,
               FMul(VarResult.initial_investment, FAbs(var_quantile)))
        /\ FEq(VarResult.var_percent, FMul(FromInt(100), var_quantile))

(* C24: for every cached output, confidence level in (0,1) and positive
   investment, calculate_var returns var_amount >= 0, var_amount equal to
   initial_investment * |var_quantile| and var_percent equal to
   100 * var_quantile, where var_quantile is the 100 * (1 - confidence_level)
   percentile of the returns (terminal - initial_rate) / initial_rate. *)
C24_VarAmountNonNegative ==
    VarCall => VarIdentities(ret.inst)

(* Supporting fact for C24: the three relations hold whenever the returns
   are numbers. *)
C24_VarAmountOnFiniteReturns ==
    (VarCall /\ FiniteReturns(ret.inst)) => VarIdentities(ret.inst)

C24_WitnessFinite ==
    /\ VarCall
    /\ FiniteReturns(ret.inst)
    /\ FLt(VarResult.var_percent, 0)
    /\ FLt(0, VarResult.var_amount)

C24_WitnessNaN ==
    /\ VarCall
    /\ IsNaN(sims[ret.inst].initial_rate)
    /\ IsNaN(VarResult.var_amount)

(* A simulator with the parameters of s and nothing behind it. *)
FreshLike(s) == [s EXCEPT !._simulations = None, !._predicted_rates = 0]

(* C25: the matrix that simulate(days, n_simulations, seed) with a non-null
   seed produces is the one a fresh simulator with the same parameters
   produces from a generator seeded with that seed, whatever ran before on
   this or other simulators: earlier simulate() calls with other seeds,
   simulate_all, queries. No generator state is carried between calls. *)
C25_SeededMatrixIgnoresHistory ==
    [][(ret'.op = "models.simulate" /\ ret'.status = "ok"
            /\ ret'.args.random_seed # None)
        => models'[ret'.inst].sim._simulations
             = Paths(FreshLike(models[ret'.inst].sim), ret'.args.days,
                     ret'.args.n_simulations,
                     SeedState(ret'.args.random_seed[1]))]_vars

(* Supporting fact for C25: the same on a stand-alone simulator, between two
   simulators and around writes through a returned array. *)
C25_SeededMatrixStandAlone ==
    [][(ret'.op = "simulate" /\ ret'.status = "ok" /\ ret'.args.random_seed # None)
        => sims'[ret'.inst]._simulations
             = Paths(FreshLike(sims[ret'.inst]), ret'.args.days,
                     ret'.args.n_simulations,
                     SeedState(ret'.args.random_seed[1]))]_vars

C25_Witness ==
    /\ ret.op = "models.simulate"
    /\ ret.status = "ok"
    /\ ret.args.random_seed = Some(1)
    /\ ret.args.n_simulations = MaxPaths
    /\ Len(models) = 2
    /\ ret.inst = 1
    /\ Simulated(models[2].sim)
    /\ Len(models[2].sim._simulations) = 1
    /\ models[1].sim._simulations[1] # models[1].sim._simulations[2]

(* increment = (mu - 0.5 * sigma^2) * dt + sigma * sqrt(dt) * Z, with
   dt = 1 / trading_days_per_year *)
IncrementOf(s, z) ==
    LET dt == FDiv(FromInt(1), FromInt(s.trading_days_per_year))
    IN  FAdd(FMul(FSub(s.mu, FMul(Scale \div 2, FMul(s.sigma, s.sigma))), dt),
             FMul(FMul(s.sigma, SqrtFx(dt)), z))

(* L[i, 0] = 0 and L[i, t] = L[i, t-1] + increment[i, t-1]; column c holds
   step t = c - 1, and Z is one variate per cell of an (n, days - 1) array
   drawn row by row from the generator g. *)
RECURSIVE LogPathOf(_, _, _, _, _)
LogPathOf(s, g, days, i, c) ==
    IF c = 1 THEN 0
    ELSE FAdd(LogPathOf(s, g, days, i, c - 1),
              IncrementOf(s, VariateTable[
                  RngAdvance(g, (i - 1) * (days - 1) + (c - 1)) + 1]))

SeededSimulateStep ==
    /\ ret'.op = "simulate"
    /\ ret'.status = "ok"
    /\ ret'.args.random_seed # None

(* C26: every entry of the matrix is initial_rate * exp(L[i, t]), where L is
   the cumulative sum of the increments starting from 0. *)
C26_RateTimesExpOfCumulativeSum ==
    [][SeededSimulateStep
        => LET s == sims[ret'.inst]
               g == SeedState(ret'.args.random_seed[1])
               days == ret'.args.days
           IN  \A i \in 1..ret'.args.n_simulations : \A c \in 1..days :
                    sims'[ret'.inst]._simulations[i][c]
                        = FMul(s.initial_rate, ExpFx(LogPathOf(s, g, days, i, c)))]_vars

(* Supporting fact for C26: the matrix has n_simulations rows of days
   entries and every entry is exp(log(initial_rate) + L[i, t]) for the
   cumulative sum L of the claim, one variate per (row, step). *)
C26_ExpOfLogPlusCumulativeSum ==
    [][SeededSimulateStep
        => LET s == sims[ret'.inst]
               g == SeedState(ret'.args.random_seed[1])
               days == ret'.args.days
               paths == sims'[ret'.inst]._simulations
           IN  /\ Len(paths) = ret'.args.n_simulations
               /\ \A i \in 1..Len(paths) :
                    /\ Len(paths[i]) = days
                    /\ \A c \in 1..days :
                          paths[i][c] = ExpFx(FAdd(LogFx(s.initial_rate),
                                                   LogPathOf(s, g, days, i, c)))]_vars

C26_WitnessTwoSteps ==
    /\ SimulateCall
    /\ ret.args.random_seed # None
    /\ ret.args.days = MaxDays
    /\ ret.args.n_simulations = MaxPaths
    /\ sims[ret.inst].sigma > 0
    /\ Cached(ret.inst)[1][MaxDays] # Cached(ret.inst)[2][MaxDays]

C26_WitnessNotTheProduct ==
    /\ SimulateCall
    /\ ~IsNaN(sims[ret.inst].initial_rate)
    /\ sims[ret.inst].mu = 0
    /\ sims[ret.inst].sigma = 0
    /\ Cached(ret.inst)[1][1] # FMul(sims[ret.inst].initial_rate, ExpFx(0))

(* C27: simulate_all on a non-empty portfolio with days < 1 or
   n_simulations < 1 raises the ValueError of the first asset's simulate(),
   which is the only simulate() it starts, returns no mapping, and leaves
   every registered simulator as it was: parameters, cached matrix, terminal
   column and lifecycle state. *)
C27_InvalidBatchChangesNothing ==
    [][(ret'.op = "simulate_all" /\ models # <<>>
            /\ (ret'.args.days < 1 \/ ret'.args.n_simulations < 1))
        => /\ ret'.status = "ValueError"
           /\ ret'.value = None
           /\ models' = models
           /\ events'[Len(events')] = SimulateEvent(1)
           /\ \A e \in 1..Len(events') :
                events'[e].kind = "simulate" => events'[e].pos = 1]_vars

C27_Witness ==
    /\ AllCall
    /\ ret.status = "ValueError"
    /\ ret.args.days = MaxDays
    /\ ret.args.n_simulations < 1
    /\ ret.args.random_seed = Some(0)
    /\ Len(models) = 2
    /\ Simulated(models[1].sim)
    /\ ~Simulated(models[2].sim)

HasShape(matrix, rows, columns) ==
    /\ Len(matrix) = rows
    /\ \A r \in 1..rows : Len(matrix[r]) = columns

(* C28: after a successful simulate_all(days, n_simulations, seed) every
   registered asset is Simulated with a cached matrix of n_simulations rows
   and days columns produced by this call, and the returned mapping has one
   entry per registered identifier, in insertion order, whose value is that
   asset's cached matrix. An asset added afterwards is Configured and has no
   row in get_comparison, and an asset becomes Simulated only by a
   simulate_all or by a direct simulate() on it. *)
C28_BatchSimulatesEveryAsset ==
    [][/\ (ret'.op = "simulate_all" /\ ret'.status = "ok" /\ ret'.args.return_paths)
            => /\ Len(models') = Len(models)
               /\ Len(ret'.value[1]) = Len(models')
               /\ \A k \in 1..Len(models') :
                    /\ models'[k].key = models[k].key
                    /\ Simulated(models'[k].sim)
                    /\ HasShape(models'[k].sim._simulations,
                                ret'.args.n_simulations, ret'.args.days)
                    /\ \E g \in GeneratorStates :
                          models'[k].sim._simulations =
                              Paths(models[k].sim, ret'.args.days,
                                    ret'.args.n_simulations, g)
                    /\ ret'.value[1][k].key = models'[k].key
                    /\ ret'.value[1][k].array = [alias |-> TRUE, col |-> 0, data |-> None]
       /\ (ret'.op = "add_currency" /\ ret'.status = "ok")
            => LET k == Position(models', ret'.args.currency_pair.text)
               IN  /\ k # 0
                   /\ ~Simulated(models'[k].sim)
                   /\ ret'.args.currency_pair.text \notin ComparedKeys(models')
       /\ \A k \in 1..Len(models) :
            ~Simulated(models[k].sim)
                => \/ /\ Len(models') >= k
                      /\ ~Simulated(models'[k].sim)
                      /\ models[k].key \notin ComparedKeys(models')
                   \/ ret'.op = "simulate_all"
                   \/ ret'.op = "models.simulate" /\ ret'.inst = k]_vars

C28_Witness ==
    /\ AllCall
    /\ ret.status = "ok"
    /\ ret.args.return_paths
    /\ ret.args.days = MaxDays
    /\ ret.args.n_simulations = MaxPaths
    /\ Len(models) = 2
    /\ ret.value[1][1].key = "USD/RUB"
    /\ ret.value[1][2].key = "EUR/USD"

(* Supporting fact for C28: a get_comparison that leaves out the asset added
   after the batch. *)
C28_WitnessAddedAfter ==
    /\ CompareCall
    /\ Len(models) = 2
    /\ Simulated(models[1].sim)
    /\ ~Simulated(models[2].sim)
    /\ Len(ret.value[1]) = 1

PredictionCall == ret.op = "get_prediction" /\ ret.status = "ok"

PredictionOrdered(i) ==
    LET p == ret.value[1]
        alpha == FSub(FromInt(1), ret.args.confidence_level)
    IN  /\ FLe(p.min_val, p.lower)
        /\ FLe(p.lower, p.median)
        /\ FLe(p.median, p.upper)
        /\ FLe(p.upper, p.max_val)
        /\ FLe(p.min_val, p.mean)
        /\ FLe(p.mean, p.max_val)
        /\ p.lower = Percentile(Terminal(i), FDiv(FMul(FromInt(100), alpha), FromInt(2)))
        /\ p.upper = Percentile(Terminal(i),
                        FMul(FromInt(100), FSub(FromInt(1), FDiv(alpha, FromInt(2)))))
        /\ p.confidence_level = ret.args.confidence_level

(* C29: for every cached terminal column and confidence level in (0,1),
   get_prediction returns min <= lower <= median <= upper <= max and
   min <= mean <= max, where lower and upper are the interpolated percentiles
   at 100 * alpha / 2 and 100 * (1 - alpha / 2) with
   alpha = 1 - confidence_level, and it returns the confidence level it was
   given. *)
C29_PredictionIsOrdered ==
    PredictionCall => PredictionOrdered(ret.inst)

(* Supporting fact for C29: the ordering holds whenever the terminal values
   are numbers. *)
C29_OrderedOnFiniteTerminal ==
    (PredictionCall /\ FiniteTerminal(ret.inst)) => PredictionOrdered(ret.inst)

C29_WitnessFinite ==
    /\ PredictionCall
    /\ FiniteTerminal(ret.inst)
    /\ Len(Terminal(ret.inst)) = MaxPaths
    /\ FLt(ret.value[1].min_val, ret.value[1].lower)
    /\ FLt(ret.value[1].upper, ret.value[1].max_val)

C29_WitnessNaN ==
    /\ PredictionCall
    /\ IsNaN(sims[ret.inst].initial_rate)
    /\ IsNaN(ret.value[1].min_val)
    /\ IsNaN(ret.value[1].mean)

BatchArgs(seed) ==
    [days |-> MaxDays, n_simulations |-> MaxPaths, random_seed |-> Some(seed),
     return_paths |-> TRUE]

(* What a simulate_all with base seed seed makes of the portfolio m. *)
BatchOf(m, seed) ==
    SimulateAllOutcome(m, BatchArgs(seed), SeedState(seed), [k \in Slots |-> 0])

(* C30: add_currency on a registered identifier leaves it at its position:
   every identifier keeps its position, so for any base seed a simulate_all
   gives each other asset the matrix it would have got without the re-add,
   and the other assets' rows of get_comparison keep their order. *)
C30_ReAddKeepsPosition ==
    [][(ret'.op = "add_currency" /\ ret'.status = "ok"
            /\ Position(models, ret'.args.currency_pair.text) # 0)
        => LET key == ret'.args.currency_pair.text
               k == Position(models, key)
           IN  /\ Len(models') = Len(models)
               /\ \A j \in 1..Len(models) : models'[j].key = models[j].key
               /\ Position(models', key) = k
               /\ \A seed \in {0, 1} :
                    (BatchOf(models, seed).status = "ok"
                        /\ BatchOf(models', seed).status = "ok")
                    => \A j \in 1..Len(models) :
                            j # k => BatchOf(models', seed).models[j]
                                        = BatchOf(models, seed).models[j]
               /\ GetComparison(models')
                    = SelectSeq(GetComparison(models),
                                LAMBDA row : row.currency_pair # key)]_vars

C30_Witness ==
    /\ AddCall
    /\ ret.status = "ok"
    /\ ret.args.currency_pair.text = "USD/RUB"
    /\ Len(models) = 2
    /\ models[1].key = "USD/RUB"
    /\ models[2].key = "EUR/USD"
    /\ Simulated(models[2].sim)
    /\ BatchOf(models, 1).status = "ok"

===========================================================================
